---- MODULE Spec2Model ----
(***************************************************************************)
(* A model of src/src/host.rs: loading a VST plugin library, creating      *)
(* plugin instances through the entry point, the plugin-to-host callback   *)
(* bridge (callback_wrapper) with its process-wide staging slot            *)
(* (load_pointer), host-to-plugin dispatch, and instance teardown.         *)
(*                                                                         *)
(* The host side is a set of PluginLoader values; instance() takes         *)
(* `&mut self`, so at most one instance() call runs per loader, and calls  *)
(* on different loaders interleave freely.  The plugin side is the         *)
(* environment: it decides what the entry point returns, what each         *)
(* dispatch replies, and when it calls back and with which descriptor.     *)
(***************************************************************************)
EXTENDS Naturals, Sequences, FiniteSets

\* ------------------------------------------------------------------ bounds
\* Descriptors the plugins may allocate (= entry-point invocations).
MaxEffects == 2
\* init() calls the owner makes on one instance.
MaxInit == 2

\* ---------------------------------------------------------------- universe
Loaders == {"A", "B"}
\* The loader the host-side specification follows.
HostLoaders == {"A"}
Hosts == {"h1", "h2"}
\* A null pointer / the value 0 of a reserved slot.
NULL == "null"
\* Kinds of path given to load(): no loadable library, a library without the
\* entry symbol, a library exporting VSTPluginMain.
Paths == {"missing", "nosymbol", "plugin"}
\* Replies a plugin gives to a dispatch.
Replies == {0, 1}
\* The plugin's dispatcher function, as stored in AEffect.dispatcher.
DispatcherFn == "dispatcher_fn"
Effects == 1..MaxEffects
\* The plugin threads that call back into the host.
Callbacks == {1, 2}
\* The plugin fills the numeric fields of a descriptor in one of these ways.
Generations == {0, 1}

VARIABLES
    loader,        \* loader[l]: the result of the last load() into slot l
    load_pointer,  \* the static staging slot: NULL or a host handle
    stagedBy,      \* history: the loader whose call_main last wrote load_pointer
    ipc,           \* ipc[l]: where the instance() call on loader l stands
    cur,           \* cur[l]: the descriptor the running instance() call is about
    effect,        \* effect[e]: the plugin-owned AEffect
    inst,          \* inst[e]: the PluginInstance built around descriptor e
    seen,          \* seen[e]: the dispatcher invocations the plugin observed for e
    last,          \* the dispatch() call made by the step just taken, if any
    cb,            \* cb[c]: a callback inside callback_wrapper
    mutex,         \* mutex[h]: the Mutex of host handle h
    crashed,       \* the process aborted (panic while panicking)
    overlapped,    \* history: two instance() calls were in progress at once
    libs,          \* libs[l]: the Arc<DynamicLibrary> of the library loaded into l
    host_rc,       \* host_rc[h]: owning references to host handle h, the caller's
                   \* own handle not counted
    owner          \* the application thread: the dispatch it is inside, what
                   \* the plugin saw of its dispatches, the callback running on
                   \* its stack, the host mutexes it has locked itself

vars == <<loader, load_pointer, stagedBy, ipc, cur, effect, inst, seen, last,
          cb, mutex, crashed, overlapped, libs, host_rc, owner>>

\* ----------------------------------------------------------- empty values
\* The numeric fields of a descriptor as the plugin writes them for the
\* g-th time; no two fields ever hold the same number.
Fields(g) ==
    [numPrograms |-> g, numParams |-> 2 + g, numInputs |-> 4 + g,
     numOutputs |-> 6 + g, uniqueId |-> 8 + g, version |-> 10 + g,
     initialDelay |-> 12 + g]

NoEffect ==
    [st |-> "unused", by |-> NULL, reserved1 |-> NULL, dispatcher |-> NULL,
     fields |-> Fields(0)]
NoInfo ==
    [presets |-> 0, parameters |-> 0, inputs |-> 0, outputs |-> 0,
     unique_id |-> 0, version |-> 0, initial_delay |-> 0]
NoInstance == [st |-> "none", category |-> 0, inits |-> 0, info |-> NoInfo]
NoLib == [rc |-> 0, mapped |-> FALSE]
NoDispatch == [e |-> 0, op |-> "none", st |-> "none"]
NoOwner ==
    [call |-> NoDispatch,
     entered |-> [e \in Effects |-> <<>>],
     left |-> [e \in Effects |-> <<>>],
     nested |-> 0,
     guards |-> {}]
NoCallback == [pc |-> "idle", by |-> NULL, effect |-> 0, via |-> NULL, host |-> NULL]
NoCall ==
    [inst |-> 0,
     args |-> [opcode |-> "none", index |-> 0, value |-> 0, ptr |-> NULL, opt |-> 0],
     outcome |-> "none", called |-> <<>>, reply |-> 0, ret |-> 0]

\* ------------------------------------------------------------------- load
\* DynamicLibrary::open(Some(&path)) succeeds.
LibOpens(path) == path # "missing"

\* lib.symbol("VSTPluginMain") succeeds.
HasSymbol(path) == path = "plugin"

NoLoader ==
    [st |-> "none", path |-> "none", host |-> NULL, lib |-> FALSE,
     main |-> FALSE, looked |-> FALSE]

\* A load that searches for the entry symbol without looking at the result
\* of opening the library.
load_symbol_first(path, host) ==
    IF ~HasSymbol(path)
    THEN [st |-> "NotAPlugin", path |-> path, host |-> NULL,
          lib |-> FALSE, main |-> FALSE, looked |-> TRUE]
    ELSE [st |-> "loaded", path |-> path, host |-> host,
          lib |-> TRUE, main |-> TRUE, looked |-> TRUE]

\* PluginLoader::load: the value returned for (path, host).  `path` keeps
\* the argument, `looked` records whether the entry symbol was searched
\* for; an Err result holds no library, entry point or host.
load(path, host) ==
    IF ~LibOpens(path)
    THEN [st |-> "InvalidPath", path |-> path, host |-> NULL,
          lib |-> FALSE, main |-> FALSE, looked |-> FALSE]
    ELSE IF ~HasSymbol(path)
    THEN [st |-> "NotAPlugin", path |-> path, host |-> NULL,
          lib |-> FALSE, main |-> FALSE, looked |-> TRUE]
    ELSE [st |-> "loaded", path |-> path, host |-> host,
          lib |-> TRUE, main |-> TRUE, looked |-> TRUE]

\* Arc::new(lib): the first owning reference to a mapped library.
lib_new == [rc |-> 1, mapped |-> TRUE]

\* A clone that does not count: the instance borrows the loader's reference.
lib_borrow(lb) == lb

\* self.lib.clone(): one more owning reference to the library.
lib_clone(lb) == [lb EXCEPT !.rc = @ + 1]

\* An owning reference to the library is dropped; the library is unmapped
\* with the last one.
lib_drop(lb) == [rc |-> lb.rc - 1, mapped |-> lb.rc - 1 > 0]

\* load() moves the caller's Arc<Mutex<T>> into the PluginLoader it returns
\* and drops it, like the library it opened, when it returns an Err.
Load(l, path, host) ==
    /\ ~crashed
    /\ loader[l].st \in {"none", "InvalidPath", "NotAPlugin"}
    /\ loader' = [loader EXCEPT ![l] = load(path, host)]
    /\ libs' = [libs EXCEPT ![l] = IF load(path, host).lib THEN lib_new ELSE NoLib]
    /\ host_rc' = IF load(path, host).host = NULL THEN host_rc
                  ELSE [host_rc EXCEPT ![load(path, host).host] = @ + 1]
    /\ UNCHANGED <<owner, load_pointer, stagedBy, ipc, cur, effect, inst, seen, cb, mutex, crashed, overlapped>>
    /\ last' = NoCall

\* ------------------------------------------------------------------- Init
Init ==
    /\ loader = [l \in Loaders |-> NoLoader]
    /\ load_pointer = NULL
    /\ stagedBy = NULL
    /\ ipc = [l \in Loaders |-> "idle"]
    /\ cur = [l \in Loaders |-> 0]
    /\ effect = [e \in Effects |-> NoEffect]
    /\ inst = [e \in Effects |-> NoInstance]
    /\ seen = [e \in Effects |-> <<>>]
    /\ last = NoCall
    /\ cb = [c \in Callbacks |-> NoCallback]
    /\ mutex = [h \in Hosts |-> [holder |-> 0, poisoned |-> FALSE]]
    /\ crashed = FALSE
    /\ overlapped = FALSE
    /\ libs = [l \in Loaders |-> NoLib]
    /\ host_rc = [h \in Hosts |-> 0]
    /\ owner = NoOwner

\* --------------------------------------------------------------- dispatch
\* plugin::OpCode values the host side dispatches.
GetProductName == "GetProductName"
GetVendorName == "GetVendorName"
GetCategory == "GetCategory"
Initialize == "Initialize"
Shutdown == "Shutdown"

\* A dispatch that calls the plugin but returns 0 whatever it replied.
dispatch_drops_reply(e, op, index, value, ptr, opt, reply) ==
    [inst |-> e,
     args |-> [opcode |-> op, index |-> index, value |-> value, ptr |-> ptr,
               opt |-> opt],
     outcome |-> IF effect[e].dispatcher = NULL THEN "panic" ELSE "returned",
     called |-> IF effect[e].dispatcher = NULL THEN <<>>
                ELSE <<[fn |-> effect[e].dispatcher, effect |-> e, opcode |-> op,
                        index |-> index, value |-> value, ptr |-> ptr,
                        opt |-> opt]>>,
     reply |-> reply, ret |-> 0]

\* PluginInstance::dispatch on the instance around descriptor e, the plugin
\* answering `reply` if it is called: the dispatcher pointer is read from the
\* descriptor; null panics without calling anything, otherwise the plugin's
\* function is called once with (self.effect, opcode, index, value, ptr, opt)
\* and its reply is the return value.
dispatch(e, op, index, value, ptr, opt, reply) ==
    LET dispatcher == effect[e].dispatcher
        args == [opcode |-> op, index |-> index, value |-> value,
                 ptr |-> ptr, opt |-> opt]
    IN  IF dispatcher = NULL
        THEN [inst |-> e, args |-> args, outcome |-> "panic", called |-> <<>>,
              reply |-> reply, ret |-> 0]
        ELSE [inst |-> e, args |-> args, outcome |-> "returned",
              called |-> <<[fn |-> dispatcher, effect |-> e, opcode |-> op,
                            index |-> index, value |-> value, ptr |-> ptr,
                            opt |-> opt]>>,
              reply |-> reply, ret |-> reply]

\* What the plugin has observed once the invocations of `call` are added.
Observe(s, call) ==
    [e \in Effects |->
        IF call.called # <<>> /\ call.called[1].effect = e
        THEN Append(s[e], call.called[1].opcode)
        ELSE s[e]]

\* PluginInstance::read_string / PluginInstance::opcode: the arguments each
\* passes to dispatch (a buffer for a string, a null pointer otherwise).
read_string(e, op, reply) == dispatch(e, op, 0, 0, "buf", 0, reply)
opcode(e, op, reply) == dispatch(e, op, 0, 0, NULL, 0, reply)

\* A Drop that tells the plugin nothing.
drop_silent(e, reply) ==
    [dispatch(e, Shutdown, 0, 0, NULL, 0, reply) EXCEPT !.called = <<>>]

\* Drop for PluginInstance: one Shutdown dispatch.
\* A drop that shuts down some descriptor of the plugin, not its own.
drop_any(e, reply) ==
    dispatch(CHOOSE f \in Effects : TRUE, Shutdown, 0, 0, NULL, 0, reply)

drop(e, reply) == dispatch(e, Shutdown, 0, 0, NULL, 0, reply)

Count(s, x) == Cardinality({i \in 1..Len(s) : s[i] = x})

\* --------------------------------------------------------------- instance
FreshEffects ==
    {e \in Effects : effect[e].st = "unused"
                     /\ \A f \in 1..(e - 1) : effect[f].st # "unused"}

\* Box::new(self.host.clone()) turned into a raw pointer by mem::transmute:
\* the clone is an owning reference that no code ever drops.
boxed(n) == n + 1

\* A call_main that leaves a staging slot alone once it has been set.
staged_keep(l) == IF load_pointer = NULL THEN loader[l].host ELSE load_pointer

\* The value call_main stores in load_pointer: a boxed clone of the
\* loader's host handle, whatever the slot held.
staged(l) == loader[l].host

\* PluginLoader::call_main, up to the invocation of the entry point.  The
\* plugin allocates its descriptor inside the entry point.
call_main(l) ==
    /\ ~crashed
    /\ loader[l].st = "loaded"
    /\ ipc[l] = "idle"
    /\ \E e \in FreshEffects :
        /\ cur' = [cur EXCEPT ![l] = e]
        /\ effect' = [effect EXCEPT ![e] =
                        [st |-> "building", by |-> l, reserved1 |-> NULL,
                         dispatcher |-> NULL, fields |-> Fields(0)]]
    /\ load_pointer' = staged(l)
    /\ stagedBy' = l
    /\ ipc' = [ipc EXCEPT ![l] = "main"]
    /\ overlapped' = (overlapped \/ \E m \in Loaders \ {l} : ipc[m] # "idle")
    /\ host_rc' = [host_rc EXCEPT ![loader[l].host] = boxed(@)]
    /\ UNCHANGED <<owner, loader, inst, seen, cb, mutex, crashed, libs>>
    /\ last' = NoCall

\* A null test that lets every pointer through.
is_null_never(ptr) == FALSE

\* The null test instance() makes on the pointer the entry point returned (a
\* descriptor pointer is a descriptor's number, the null pointer is 0).
is_null(ptr) == ptr = 0

\* The entry point returns `ptr` (null, the plugin having made no
\* descriptor, or the descriptor, whose dispatcher field the plugin has set
\* to d); instance() returns InstanceFailed on null.
main_returns(l, ptr, d) ==
    /\ ~crashed
    /\ ipc[l] = "main"
    /\ ptr \in {0, cur[l]}
    /\ effect' = [effect EXCEPT ![cur[l]].st = IF ptr = 0 THEN "null" ELSE "live",
                                ![cur[l]].dispatcher = IF ptr = 0 THEN NULL ELSE d]
    /\ IF is_null(ptr)
       THEN /\ inst' = [inst EXCEPT ![cur[l]].st = "InstanceFailed"]
            /\ ipc' = [ipc EXCEPT ![l] = "idle"]
            /\ cur' = [cur EXCEPT ![l] = 0]
       ELSE /\ ipc' = [ipc EXCEPT ![l] = "ret"]
            /\ UNCHANGED <<inst, cur>>
    /\ UNCHANGED <<owner, loader, load_pointer, stagedBy, seen, cb, mutex,
                   crashed, overlapped, libs, host_rc>>
    /\ last' = NoCall

\* instance(): a boxed clone of the host handle is written to the
\* descriptor's reserved slot and PluginInstance::new creates `plug`, which
\* holds a clone of the loader's library reference.
write_reserved(l) ==
    /\ ~crashed
    /\ ipc[l] = "ret"
    /\ effect' = [effect EXCEPT ![cur[l]].reserved1 = loader[l].host]
    /\ inst' = [inst EXCEPT ![cur[l]].st = "new"]
    /\ ipc' = [ipc EXCEPT ![l] = "new0"]
    /\ host_rc' = [host_rc EXCEPT ![loader[l].host] = boxed(@)]
    /\ libs' = [libs EXCEPT ![l] = lib_clone(@)]
    /\ UNCHANGED <<owner, loader, load_pointer, stagedBy, cur, seen, cb, mutex,
                   crashed, overlapped>>
    /\ last' = NoCall

\* The dispatch PluginInstance::new makes at each stage of building Info.
\* A snapshot whose preset and parameter counts are taken from each
\* other's field.
read_counts_swapped(info, fields) ==
    [info EXCEPT !.presets = fields.numParams,
                 !.parameters = fields.numPrograms,
                 !.inputs = fields.numInputs,
                 !.outputs = fields.numOutputs,
                 !.unique_id = fields.uniqueId,
                 !.version = fields.version]

\* The fields of the Info literal that are read from the descriptor between
\* the GetVendorName and the GetCategory dispatch.
read_counts(info, fields) ==
    [info EXCEPT !.presets = fields.numPrograms,
                 !.parameters = fields.numParams,
                 !.inputs = fields.numInputs,
                 !.outputs = fields.numOutputs,
                 !.unique_id = fields.uniqueId,
                 !.version = fields.version]

\* initial_delay is read after the GetCategory dispatch has returned.
read_delay(info, fields) == [info EXCEPT !.initial_delay = fields.initialDelay]

\* A new() that ends its queries with an Initialize.
new_call_initializes(stage, e, reply) ==
    CASE stage = "new0" -> read_string(e, GetProductName, reply)
      [] stage = "new1" -> read_string(e, GetVendorName, reply)
      [] OTHER -> opcode(e, Initialize, reply)

new_call(stage, e, reply) ==
    CASE stage = "new0" -> read_string(e, GetProductName, reply)
      [] stage = "new1" -> read_string(e, GetVendorName, reply)
      [] OTHER -> opcode(e, GetCategory, reply)

\* A new() that leaves out its second query.
new_next_skips(stage) ==
    CASE stage = "new0" -> "new2"
      [] OTHER -> "idle"

new_next(stage) ==
    CASE stage = "new0" -> "new1"
      [] stage = "new1" -> "new2"
      [] OTHER -> "idle"

\* One dispatch of PluginInstance::new.  A panicking dispatch unwinds
\* through new(), which drops `plug`; a second panic inside that drop
\* aborts the process.
new_step(l, reply) ==
    /\ ~crashed
    /\ ipc[l] \in {"new0", "new1", "new2"}
    /\ LET e == cur[l]
           call == new_call(ipc[l], e, reply)
           unwind == drop(e, reply)
       IN  IF call.outcome = "panic"
           THEN /\ last' = unwind
                /\ seen' = Observe(seen, unwind)
                /\ crashed' = (unwind.outcome = "panic")
                /\ inst' = [inst EXCEPT ![e].st = "panicked"]
                /\ ipc' = [ipc EXCEPT ![l] = "idle"]
                /\ cur' = [cur EXCEPT ![l] = 0]
                /\ libs' = IF unwind.outcome = "panic" THEN libs
                           ELSE [libs EXCEPT ![l] = lib_drop(@)]
           ELSE /\ last' = call
                /\ seen' = Observe(seen, call)
                /\ ipc' = [ipc EXCEPT ![l] = new_next(ipc[l])]
                /\ inst' = CASE ipc[l] = "new1" ->
                                  [inst EXCEPT ![e].info = read_counts(@, effect[e].fields)]
                             [] ipc[l] = "new2" ->
                                  [inst EXCEPT ![e].st = "live",
                                               ![e].category = call.ret,
                                               ![e].info = read_delay(@, effect[e].fields)]
                             [] OTHER -> inst
                /\ cur' = IF ipc[l] = "new2" THEN [cur EXCEPT ![l] = 0] ELSE cur
                /\ UNCHANGED <<crashed, libs>>
    /\ UNCHANGED <<owner, loader, load_pointer, stagedBy, effect, cb, mutex, overlapped,
                   host_rc>>

\* A value the owner can use after it has given it up.
owned_forever(e) == inst[e].st \in {"live", "dropped"}

\* The owner holds the PluginInstance: instance() returned it and it has not
\* been released (a released value cannot be used again).
owned(e) == inst[e].st = "live"

\* Plugin::init for PluginInstance; `inits` counts the owner's calls.
init(e, reply) ==
    /\ ~crashed
    /\ owned(e)
    /\ inst[e].inits < MaxInit
    /\ LET call == opcode(e, Initialize, reply)
       IN  /\ last' = call
           /\ seen' = Observe(seen, call)
    /\ inst' = [inst EXCEPT ![e].inits = @ + 1]
    /\ UNCHANGED <<owner, loader, load_pointer, stagedBy, ipc, cur, effect, cb,
                   mutex, crashed, overlapped, libs, host_rc>>

\* Plugin::get_info for PluginInstance: a clone of the snapshot.
get_info(e) == inst[e].info

\* The plugin rewrites the numeric fields of a descriptor it has allocated.
plugin_writes(e, g) ==
    /\ ~crashed
    /\ effect[e].st \in {"building", "live"}
    /\ effect[e].fields # Fields(g)
    /\ effect' = [effect EXCEPT ![e].fields = Fields(g)]
    /\ last' = NoCall
    /\ UNCHANGED <<owner, loader, load_pointer, stagedBy, ipc, cur, inst, seen, cb, mutex,
                   crashed, overlapped, libs, host_rc>>

\* The owner releases the instance: Drop::drop runs, then the fields are
\* dropped, the library reference among them.
release(e, reply) ==
    /\ ~crashed
    /\ owned(e)
    /\ LET call == drop(e, reply)
       IN  /\ last' = call
           /\ seen' = Observe(seen, call)
    /\ inst' = [inst EXCEPT ![e].st = "dropped"]
    /\ libs' = [libs EXCEPT ![effect[e].by] = lib_drop(@)]
    /\ UNCHANGED <<owner, loader, load_pointer, stagedBy, ipc, cur, effect, cb, mutex,
                   crashed, overlapped, host_rc>>

\* The owner releases the PluginLoader: its library reference and its host
\* handle are dropped.
release_loader(l) ==
    /\ ~crashed
    /\ loader[l].st = "loaded"
    /\ ipc[l] = "idle"
    /\ loader' = [loader EXCEPT ![l].st = "released"]
    /\ libs' = [libs EXCEPT ![l] = lib_drop(@)]
    /\ host_rc' = [host_rc EXCEPT ![loader[l].host] = @ - 1]
    /\ UNCHANGED <<owner, load_pointer, stagedBy, ipc, cur, effect, inst, seen, cb, mutex, crashed, overlapped>>
    /\ last' = NoCall

\* ------------------------------------------------------- callback_wrapper
\* A bridge that always goes through the staging slot.
resolve_staging_only(e) == [via |-> "staging", host |-> load_pointer]

\* The host handle callback_wrapper resolves for descriptor pointer e: the
\* descriptor's reserved slot when the pointer is non-null and the slot is
\* non-zero, load_pointer otherwise.
resolve(e) ==
    IF e # 0 /\ effect[e].reserved1 # NULL
    THEN [via |-> "reserved", host |-> effect[e].reserved1]
    ELSE [via |-> "staging", host |-> load_pointer]

\* The descriptors plugin code of loader l can pass to the callback: the
\* null pointer, or one it allocated and has not been told to shut down.
Passable(l) ==
    {0} \cup {e \in Effects : /\ effect[e].by = l
                              /\ effect[e].st \in {"building", "live"}
                              /\ inst[e].st # "dropped"}

\* Plugin code of loader l calls callback_wrapper with descriptor pointer e
\* (it holds the callback pointer once its entry point has been invoked).
\* Threads are interchangeable: the call is made by the first idle one.
cb_enter(c, l, e) ==
    /\ ~crashed
    /\ cb[c].pc = "idle"
    /\ \A b \in Callbacks : b < c => cb[b].pc # "idle"
    /\ \E f \in Effects : effect[f].by = l
    /\ e \in Passable(l)
    /\ cb' = [cb EXCEPT ![c] =
                [pc |-> "lock", by |-> l, effect |-> e,
                 via |-> resolve(e).via, host |-> resolve(e).host]]
    /\ UNCHANGED <<owner, loader, load_pointer, stagedBy, ipc, cur, effect, inst, seen,
                   mutex, crashed, overlapped, libs, host_rc>>
    /\ last' = NoCall

\* A lock that never blocks.
can_lock_always(h) == TRUE

\* A lock that lets in the thread whose application code holds the guard.
can_lock_reentrant(h) == mutex[h].holder = 0

\* host.lock() can return: no callback and no application code holds the
\* mutex (std::sync::Mutex is not reentrant).
can_lock(h) == mutex[h].holder = 0 /\ h \notin owner.guards

\* host.lock().unwrap(): blocks while the mutex is held; on a poisoned
\* mutex unwrap() panics and the panic unwinds out of callback_wrapper.
cb_lock(c) ==
    /\ ~crashed
    /\ cb[c].pc = "lock"
    /\ can_lock(cb[c].host)
    /\ IF mutex[cb[c].host].poisoned
       THEN /\ cb' = [cb EXCEPT ![c] = [NoCallback EXCEPT !.pc = "unwound"]]
            /\ UNCHANGED mutex
       ELSE /\ cb' = [cb EXCEPT ![c].pc = "host"]
            /\ mutex' = [mutex EXCEPT ![cb[c].host].holder = c]
    /\ UNCHANGED <<owner, loader, load_pointer, stagedBy, ipc, cur, effect, inst, seen,
                   crashed, overlapped, libs, host_rc>>
    /\ last' = NoCall

\* interfaces::host_dispatch returns; the guard is dropped and the reply is
\* returned to the plugin.
cb_return(c) ==
    /\ ~crashed
    /\ cb[c].pc = "host"
    /\ mutex' = [mutex EXCEPT ![cb[c].host].holder = 0]
    /\ cb' = [cb EXCEPT ![c] = NoCallback]
    /\ UNCHANGED <<owner, loader, load_pointer, stagedBy, ipc, cur, effect, inst, seen,
                   crashed, overlapped, libs, host_rc>>
    /\ last' = NoCall

\* The host's method panics inside host_dispatch: the guard is dropped
\* during unwinding, which poisons the mutex, and nothing in
\* callback_wrapper stops the unwinding.
cb_panic(c) ==
    /\ ~crashed
    /\ cb[c].pc = "host"
    /\ mutex' = [mutex EXCEPT ![cb[c].host] = [holder |-> 0, poisoned |-> TRUE]]
    /\ cb' = [cb EXCEPT ![c] = [NoCallback EXCEPT !.pc = "unwound"]]
    /\ UNCHANGED <<owner, loader, load_pointer, stagedBy, ipc, cur, effect, inst, seen,
                   crashed, overlapped, libs, host_rc>>
    /\ last' = NoCall

\* ------------------------------------------------- one application thread
\* The application thread is running its own code: it is inside no
\* instance() call and inside no dispatch.
InAppCode == owner.call.e = 0 /\ \A l \in Loaders : ipc[l] = "idle"

\* A callback is running on the application thread's stack.
Nested == owner.nested # 0 /\ cb[owner.nested].pc # "idle"

\* The application thread calls instance().
instance_enter(l) ==
    /\ InAppCode
    /\ call_main(l)

\* The entry point returns to the application thread, once the callback it
\* made on that thread, if any, has returned.
entry_returns(l, ptr, d) ==
    /\ ~Nested
    /\ main_returns(l, ptr, d)

\* dispatch(): the application thread calls the plugin's dispatcher
\* function for init() (Initialize) or for Drop (Shutdown); the plugin
\* starts handling the opcode.
dispatch_enter(e, op) ==
    /\ ~crashed
    /\ InAppCode
    /\ owned(e)
    /\ op = Initialize => inst[e].inits < MaxInit
    /\ owner' = [owner EXCEPT !.call = [e |-> e, op |-> op, st |-> "in"],
                              !.entered[e] = Append(@, op)]
    /\ last' = NoCall
    /\ UNCHANGED <<loader, load_pointer, stagedBy, ipc, cur, effect, inst, seen, cb,
                   mutex, crashed, overlapped, libs, host_rc>>

\* The plugin's dispatcher function returns, once the callback it made on
\* the calling thread, if any, has returned.
dispatcher_done ==
    /\ ~crashed
    /\ owner.call.st = "in"
    /\ ~Nested
    /\ owner' = [owner EXCEPT !.call.st = "out",
                              !.left[owner.call.e] = Append(@, owner.call.op)]
    /\ last' = NoCall
    /\ UNCHANGED <<loader, load_pointer, stagedBy, ipc, cur, effect, inst, seen, cb,
                   mutex, crashed, overlapped, libs, host_rc>>

\* A call that comes back while the plugin is still handling it.
returned_early(call) == call.st \in {"in", "out"}

\* The call of the dispatcher function is an ordinary call: it comes back
\* when the function has returned.
returned(call) == call.st = "out"

\* dispatch() returns to init() or to Drop::drop, which return to the
\* application; a dropped instance gives up its library reference.
dispatch_leave(reply) ==
    /\ ~crashed
    /\ returned(owner.call)
    /\ LET e == owner.call.e
           call == IF owner.call.op = Initialize
                   THEN opcode(e, Initialize, reply)
                   ELSE drop(e, reply)
       IN  /\ last' = call
           /\ seen' = Observe(seen, call)
           /\ inst' = IF owner.call.op = Initialize
                      THEN [inst EXCEPT ![e].inits = @ + 1]
                      ELSE [inst EXCEPT ![e].st = "dropped"]
           /\ libs' = IF owner.call.op = Initialize THEN libs
                      ELSE [libs EXCEPT ![effect[e].by] = lib_drop(@)]
    /\ owner' = [owner EXCEPT !.call = NoDispatch]
    /\ UNCHANGED <<loader, load_pointer, stagedBy, ipc, cur, effect, cb, mutex,
                   crashed, overlapped, host_rc>>

\* The plugin calls callback_wrapper on the application thread, from inside
\* its entry point or from inside its dispatcher function, with the null
\* pointer or the descriptor at hand.
cb_enter_sync(c, l, e) ==
    /\ ~crashed
    /\ ~Nested
    /\ cb[c].pc = "idle"
    /\ \A b \in Callbacks : b < c => cb[b].pc # "idle"
    /\ \/ ipc[l] = "main" /\ e \in {0, cur[l]}
       \/ /\ owner.call.st = "in"
          /\ effect[owner.call.e].by = l
          /\ e \in {0, owner.call.e}
    /\ cb' = [cb EXCEPT ![c] =
                [pc |-> "lock", by |-> l, effect |-> e,
                 via |-> resolve(e).via, host |-> resolve(e).host]]
    /\ owner' = [owner EXCEPT !.nested = c]
    /\ last' = NoCall
    /\ UNCHANGED <<loader, load_pointer, stagedBy, ipc, cur, effect, inst, seen,
                   mutex, crashed, overlapped, libs, host_rc>>

\* Application code locks the host it gave to a loader (it keeps a clone
\* of the Arc<Mutex<T>>) and keeps the guard.
app_lock(h) ==
    /\ ~crashed
    /\ InAppCode
    /\ \E l \in Loaders : loader[l].st = "loaded" /\ loader[l].host = h
    /\ can_lock(h)
    /\ ~mutex[h].poisoned
    /\ owner' = [owner EXCEPT !.guards = @ \cup {h}]
    /\ last' = NoCall
    /\ UNCHANGED <<loader, load_pointer, stagedBy, ipc, cur, effect, inst, seen, cb,
                   mutex, crashed, overlapped, libs, host_rc>>

\* Application code drops its guard.
app_unlock(h) ==
    /\ ~crashed
    /\ InAppCode
    /\ h \in owner.guards
    /\ owner' = [owner EXCEPT !.guards = @ \ {h}]
    /\ last' = NoCall
    /\ UNCHANGED <<loader, load_pointer, stagedBy, ipc, cur, effect, inst, seen, cb,
                   mutex, crashed, overlapped, libs, host_rc>>

\* ------------------------------------------------------------------ specs
\* The host-to-plugin side: loading, instantiation, dispatch and teardown of
\* the instances of one loader, while loads into the other slot fail.
NextHost ==
    \/ \E l \in HostLoaders, path \in Paths, host \in Hosts : Load(l, path, host)
    \/ \E l \in Loaders \ HostLoaders, path \in Paths \ {"plugin"}, host \in Hosts :
            Load(l, path, host)
    \/ \E l \in HostLoaders : call_main(l)
    \/ \E l \in HostLoaders, ptr \in Effects \cup {0}, d \in {NULL, DispatcherFn} :
            main_returns(l, ptr, d)
    \/ \E l \in HostLoaders : write_reserved(l)
    \/ \E l \in HostLoaders, reply \in Replies : new_step(l, reply)
    \/ \E e \in Effects, reply \in Replies : init(e, reply)
    \/ \E e \in Effects, reply \in Replies : release(e, reply)
    \/ \E l \in HostLoaders : release_loader(l)

\* Instantiation together with the plugin-to-host callback bridge.  Host
\* names are interchangeable, so loader A is given h1 and loader B either
\* the same host or the other one; the plugins' replies, which the bridge
\* never reads, are 0.
NextBridge ==
    \/ Load("A", "plugin", "h1")
    \/ \E host \in Hosts : Load("B", "plugin", host)
    \/ \E l \in Loaders : call_main(l)
    \/ \E l \in Loaders, ptr \in Effects \cup {0}, d \in {NULL, DispatcherFn} :
            main_returns(l, ptr, d)
    \/ \E l \in Loaders : write_reserved(l)
    \/ \E l \in Loaders : new_step(l, 0)
    \/ \E c \in Callbacks, l \in Loaders, e \in Effects \cup {0} : cb_enter(c, l, e)
    \/ \E c \in Callbacks : cb_lock(c)
    \/ \E c \in Callbacks : cb_return(c)
    \/ \E c \in Callbacks : cb_panic(c)

\* One loader building and initialising instances while the plugin rewrites
\* the numeric fields of its descriptors.
NextInfo ==
    \/ Load("A", "plugin", "h1")
    \/ call_main("A")
    \/ \E ptr \in Effects \cup {0} : main_returns("A", ptr, DispatcherFn)
    \/ write_reserved("A")
    \/ new_step("A", 0)
    \/ \E e \in Effects : init(e, 0)
    \/ \E e \in Effects, g \in Generations : plugin_writes(e, g)

\* One application thread: every dispatch is a call and a return of the
\* plugin's function, the plugin calls back on the calling thread, and the
\* application may hold the host's lock itself.
NextSync ==
    \/ Load("A", "plugin", "h1")
    \/ instance_enter("A")
    \/ \E ptr \in Effects \cup {0} : entry_returns("A", ptr, DispatcherFn)
    \/ write_reserved("A")
    \/ new_step("A", 0)
    \/ \E e \in Effects, op \in {Initialize, Shutdown} : dispatch_enter(e, op)
    \/ dispatcher_done
    \/ dispatch_leave(0)
    \/ \E c \in Callbacks, e \in Effects \cup {0} : cb_enter_sync(c, "A", e)
    \/ \E c \in Callbacks : cb_lock(c)
    \/ \E c \in Callbacks : cb_return(c)
    \/ \E h \in Hosts : app_lock(h)
    \/ \E h \in Hosts : app_unlock(h)

Next == NextHost \/ NextBridge \/ NextInfo \/ NextSync

Spec == Init /\ [][Next]_vars
SpecHost == Init /\ [][NextHost]_vars
SpecBridge == Init /\ [][NextBridge]_vars
SpecInfo == Init /\ [][NextInfo]_vars
SpecSync == Init /\ [][NextSync]_vars

\* A callback that can take the lock takes it, and the host's method
\* returns.
SpecSyncFair ==
    /\ SpecSync
    /\ WF_vars(\E c \in Callbacks : cb_lock(c))
    /\ WF_vars(\E c \in Callbacks : cb_return(c))
\* ----------------------------------------------------------------- claims
\* C3: every PluginInstance a successful instance() returned gets exactly one
\* Shutdown dispatch on its descriptor: none while the owner holds it, one
\* once the owner has released it, however many times init() was called,
\* and never a second one.
C3_ShutdownExactlyOnce ==
    \A e \in Effects :
        /\ Count(seen[e], Shutdown) <= 1
        /\ inst[e].st = "live" => Count(seen[e], Shutdown) = 0
        /\ inst[e].st = "dropped" =>
              /\ Count(seen[e], Shutdown) = 1
              /\ seen[e][Len(seen[e])] = Shutdown

\* Two released instances, one never initialised and one initialised
\* MaxInit times, each with its Shutdown.
C3_Witness ==
    \E e, f \in Effects :
        /\ inst[e].st = "dropped" /\ Count(seen[e], Initialize) = 0
        /\ inst[f].st = "dropped" /\ Count(seen[f], Initialize) >= 2
        /\ Count(seen[e], Shutdown) = 1 /\ Count(seen[f], Shutdown) = 1

\* C4: when a dispatch made by PluginInstance::new fails, after the entry
\* point returned a descriptor, exactly one Shutdown dispatch still reaches
\* the plugin for that descriptor.
C4_ShutdownAfterPartialFailure ==
    \A e \in Effects :
        inst[e].st = "panicked" => Count(seen[e], Shutdown) = 1

\* C5: a load() step classifies in a fixed order (a library that cannot be
\* opened gives InvalidPath and the symbol is never looked up, a library
\* without the entry symbol gives NotAPlugin, anything else gives a loader
\* holding the library, the entry point and the given host) and it neither
\* invokes an entry point, nor writes the staging slot, nor calls a host.
C5_LoadClassifies ==
    [][\A l \in Loaders :
        (loader'[l] # loader[l] /\ loader'[l].st # "released") =>
            /\ loader'[l].path = "missing" =>
                  /\ loader'[l].st = "InvalidPath"
                  /\ ~loader'[l].looked
            /\ loader'[l].path = "nosymbol" =>
                  /\ loader'[l].st = "NotAPlugin"
                  /\ loader'[l].looked
            /\ loader'[l].path = "plugin" =>
                  /\ loader'[l].st = "loaded"
                  /\ loader'[l].lib /\ loader'[l].main
                  /\ loader'[l].host \in Hosts
            /\ loader'[l].st # "loaded" =>
                  /\ ~loader'[l].lib /\ ~loader'[l].main
                  /\ loader'[l].host = NULL
            /\ UNCHANGED <<load_pointer, stagedBy, ipc, cur, effect, inst, seen,
                           cb, mutex>>
            /\ \A m \in Loaders \ {l} : libs'[m] = libs[m]
            /\ last' = NoCall]_vars

\* A load of a path that cannot be opened has left InvalidPath while another
\* loader is inside an entry point: the staging slot still holds that
\* loader's host and nothing was sent to its plugin.
C5_Witness ==
    \E l, m \in Loaders :
        /\ loader[l].st = "InvalidPath"
        /\ ~loader[l].looked
        /\ last = NoCall
        /\ ipc[m] = "main"
        /\ load_pointer = loader[m].host
        /\ seen[cur[m]] = <<>>

\* C6: instance() returns InstanceFailed exactly when the entry point
\* returned null; then no instance exists, the reserved slot is not written,
\* the plugin is sent nothing and the loader is still loaded and idle for
\* that call.  A non-null descriptor with a dispatcher never fails: once
\* instance() is past it, the instance is live (or already released).
C6_InstanceFailedIffNull ==
    \A e \in Effects :
        /\ inst[e].st = "InstanceFailed" <=> effect[e].st = "null"
        /\ effect[e].st = "null" =>
              /\ effect[e].reserved1 = NULL
              /\ seen[e] = <<>>
              /\ cur[effect[e].by] # e
              /\ loader[effect[e].by].st \in {"loaded", "released"}
        /\ (effect[e].st = "live" /\ effect[e].dispatcher # NULL) =>
              /\ inst[e].st \in {"none", "new", "live", "dropped"}
              /\ cur[effect[e].by] # e => inst[e].st \in {"live", "dropped"}

\* The entry point returned null on one call and a descriptor on a later
\* call of the same loader, which became a live instance.
C6_Witness ==
    \E e, f \in Effects :
        /\ e < f
        /\ effect[e].by = effect[f].by
        /\ inst[e].st = "InstanceFailed"
        /\ inst[f].st = "live"

\* C10: dispatch panics, without calling the plugin, exactly when the
\* descriptor's dispatcher is null; otherwise the plugin's function is
\* called once with the instance's own descriptor and the given opcode,
\* index, value, ptr and opt, the plugin observes that opcode, and the
\* plugin's reply is the value returned.
C10_DispatchContract ==
    last.outcome # "none" =>
        LET e == last.inst
        IN  /\ effect[e].dispatcher = NULL =>
                  /\ last.outcome = "panic"
                  /\ last.called = <<>>
            /\ effect[e].dispatcher # NULL =>
                  /\ last.outcome = "returned"
                  /\ last.called =
                        <<[fn |-> effect[e].dispatcher, effect |-> e,
                           opcode |-> last.args.opcode, index |-> last.args.index,
                           value |-> last.args.value, ptr |-> last.args.ptr,
                           opt |-> last.args.opt]>>
                  /\ seen[e] # <<>> /\ seen[e][Len(seen[e])] = last.args.opcode
                  /\ last.ret = last.reply

\* A dispatch that panicked on a null dispatcher, in a run in which an
\* earlier instance was built from a GetCategory reply of 1.
C10_Witness ==
    /\ last.outcome = "panic"
    /\ \E e \in Effects : inst[e].st = "live" /\ inst[e].category = 1
\* A callback arrives at callback_wrapper on thread c in this step.
Arrives(c) == cb[c].pc = "idle" /\ cb'[c].pc = "lock"

\* The descriptor pointer e carries no populated reserved slot.
Unpopulated(e) == e = 0 \/ effect[e].reserved1 = NULL

\* The loaders whose instance() call is inside the entry point.
InMain == {l \in Loaders : ipc[l] = "main"}

\* C1: as long as instance() calls have never overlapped, a callback that
\* arrives with a null or unpopulated descriptor while an entry point is
\* executing is bound to the host of the loader executing it, a callback
\* that arrives with a populated descriptor is bound to the host in its
\* reserved slot (whatever load_pointer holds), and the host a callback was
\* bound to on arrival is the one whose mutex it takes and which it calls.
C1_CallbackReachesItsHost ==
    [][\A c \in Callbacks :
        /\ (Arrives(c) /\ ~overlapped) =>
              /\ Unpopulated(cb'[c].effect) =>
                    \A l \in InMain : cb'[c].host = loader[l].host
              /\ ~Unpopulated(cb'[c].effect) =>
                    cb'[c].host = effect[cb'[c].effect].reserved1
        /\ (cb[c].pc = "lock" /\ cb'[c].pc = "host") =>
              /\ cb'[c].host = cb[c].host
              /\ mutex'[cb[c].host].holder = c]_vars

\* With instance() calls never overlapping: one callback is in the host of
\* the loader whose entry point is executing, reached through the staging
\* slot, and another is in the host stored in its descriptor's reserved
\* slot while the staging slot holds a different host.
C1_Witness ==
    /\ ~overlapped
    /\ \E c, d \in Callbacks :
        /\ cb[c].pc = "host" /\ cb[c].via = "staging"
        /\ ipc[cb[c].by] = "main"
        /\ cb[c].host = loader[cb[c].by].host
        /\ cb[d].pc = "host" /\ cb[d].via = "reserved"
        /\ cb[d].host = effect[cb[d].effect].reserved1
        /\ cb[d].host # load_pointer

\* C2: when another loader has written the staging slot after loader l's
\* call_main and l's entry point has not yet returned, a bootstrap callback
\* made by l's plugin is bound to that other loader's host.
C2_SecondWriterWins ==
    [][\A c \in Callbacks :
        (/\ Arrives(c)
         /\ Unpopulated(cb'[c].effect)
         /\ ipc[cb'[c].by] = "main"
         /\ stagedBy # cb'[c].by)
        => /\ cb'[c].via = "staging"
           /\ cb'[c].host = loader[stagedBy].host]_vars

\* A bootstrap callback of a plugin whose entry point is still executing is
\* inside a host that is not its loader's.
C2_Witness ==
    \E c \in Callbacks :
        /\ cb[c].pc = "host"
        /\ cb[c].via = "staging"
        /\ ipc[cb[c].by] = "main"
        /\ Unpopulated(cb[c].effect)
        /\ cb[c].host # loader[cb[c].by].host

\* C7: for every host handle at most one callback is inside the host
\* capability, and that callback holds the handle's mutex.
C7_OneCallbackPerHost ==
    /\ \A c, d \in Callbacks :
          (cb[c].pc = "host" /\ cb[d].pc = "host" /\ cb[c].host = cb[d].host) => c = d
    /\ \A c \in Callbacks : cb[c].pc = "host" => mutex[cb[c].host].holder = c

\* Two callbacks for the same host, one resolved through a reserved slot and
\* one through the staging slot: one is in the host, the other waits.
C7_Witness ==
    \E c, d \in Callbacks :
        /\ cb[c].host = cb[d].host
        /\ cb[c].via # cb[d].via
        /\ cb[c].pc = "host"
        /\ cb[d].pc = "lock"

\* C8: a callback that arrives while no instance() call is in progress,
\* made by a plugin that already has an instance whose reserved slot is
\* populated, is not bound to a host through the staging slot.
C8_StagingOnlyInWindow ==
    [][\A c \in Callbacks :
        (/\ Arrives(c)
         /\ \A l \in Loaders : ipc[l] = "idle"
         /\ \E e \in Effects : /\ effect[e].by = cb'[c].by
                                /\ effect[e].reserved1 # NULL
                                /\ inst[e].st = "live")
        => cb'[c].via # "staging"]_vars

\* C9: no callback unwinds into the plugin: a callback that has not yet
\* reached the host's method goes on to it, or waits, but never panics.
C9_CallbackNeverUnwinds ==
    [][\A c \in Callbacks : cb[c].pc = "lock" => cb'[c].pc # "unwound"]_vars

\* The instances produced from the library of loader l that still exist.
InstancesOf(l) == {e \in Effects : effect[e].by = l /\ inst[e].st \in {"new", "live"}}

\* The step dispatches opcode op to descriptor e.
Dispatches(e, op) ==
    /\ last'.called # <<>>
    /\ last'.called[1].effect = e
    /\ last'.called[1].opcode = op
    /\ seen'[e] = Append(seen[e], op)

\* ---------------------------------------------------------------------
\* C11: instance() dispatches no Initialize and every init() call
\* dispatches exactly one to the descriptor of its instance: on every
\* descriptor the number of Initialize opcodes the plugin has observed is
\* the number of init() calls made on its instance, none while the instance
\* is being built or just built, and an init() step appends one Initialize
\* to the descriptor of its own instance and nothing to any other.
C11_InitializeOnlyByInit ==
    [][\A e \in Effects :
          /\ Count(seen'[e], Initialize) = inst'[e].inits
          /\ inst'[e].st \in {"none", "new", "panicked"} => Count(seen'[e], Initialize) = 0
          /\ inst'[e].inits # inst[e].inits =>
                /\ inst'[e].inits = inst[e].inits + 1
                /\ Dispatches(e, Initialize)
                /\ \A f \in Effects \ {e} : seen'[f] = seen[f]]_vars

\* An instance that was initialised twice, next to one never initialised.
C11_Witness ==
    /\ inst[1].st = "live" /\ inst[1].inits = 2
    /\ seen[1] = <<GetProductName, GetVendorName, GetCategory, Initialize, Initialize>>
    /\ inst[2].st = "live" /\ inst[2].inits = 0
    /\ seen[2] = <<GetProductName, GetVendorName, GetCategory>>

\* ---------------------------------------------------------------------
\* C13: the library of a loader is mapped exactly as long as the loader or
\* an instance produced from it exists, whatever the order in which they
\* are released, and a Shutdown is dispatched to a descriptor only while
\* the library of its plugin is mapped.
C13_LibraryOutlivesInstances ==
    [][/\ ~crashed' =>
            \A l \in Loaders :
                libs'[l].mapped <=> (loader'[l].st = "loaded" \/ InstancesOf(l)' # {})
       /\ \A e \in Effects :
            Dispatches(e, Shutdown) => libs[effect[e].by].mapped]_vars

\* The loader was released first, then one instance; the library is still
\* mapped for the instance that is left.
C13_Witness ==
    /\ loader["A"].st = "released"
    /\ inst[1].st = "dropped" /\ inst[2].st = "live"
    /\ last.args.opcode = Shutdown /\ last.called # <<>>
    /\ libs["A"].mapped /\ libs["A"].rc = 1

\* ---------------------------------------------------------------------
\* C14: the staging slot and the reserved slots hold non-owning references:
\* once every loader and every instance is released no owning reference to
\* a host is left besides the caller's own handle.
C14_NoOwnerRemains ==
    (/\ \A l \in Loaders : loader[l].st # "loaded" /\ ipc[l] = "idle"
     /\ \A e \in Effects : inst[e].st \notin {"new", "live"})
        => \A h \in Hosts : host_rc[h] = 0

\* ---------------------------------------------------------------------
\* C15: instance() may be repeated on one loader and every instance is
\* bound to the loader's host for good: a reserved slot is written only by
\* the instance() call that builds its instance, with the loader's host,
\* and is never changed afterwards; releasing an instance dispatches
\* Shutdown to its own descriptor and leaves every other instance, its
\* descriptor and what its plugin observed untouched.
C15_InstancesIndependent ==
    [][\A e \in Effects :
          /\ effect[e].reserved1 # NULL => effect'[e].reserved1 = effect[e].reserved1
          /\ effect'[e].reserved1 # effect[e].reserved1 =>
                /\ effect[e].by # NULL
                /\ ipc[effect[e].by] = "ret" /\ cur[effect[e].by] = e
                /\ effect'[e].reserved1 = loader[effect[e].by].host
          /\ (inst[e].st = "live" /\ inst'[e].st = "dropped") =>
                /\ Dispatches(e, Shutdown)
                /\ \A f \in Effects \ {e} :
                      seen'[f] = seen[f] /\ inst'[f] = inst[f] /\ effect'[f] = effect[f]]_vars

\* Two instances of one loader; the first was released and the second was
\* initialised after that.
C15_Witness ==
    /\ effect[1].by = "A" /\ effect[2].by = "A"
    /\ effect[1].reserved1 = loader["A"].host /\ effect[2].reserved1 = loader["A"].host
    /\ inst[1].st = "dropped" /\ inst[1].inits = 0
    /\ inst[2].st = "live"
    /\ last.inst = 2 /\ last.args.opcode = Initialize /\ last.called # <<>>

\* ---------------------------------------------------------------------
\* C18: Shutdown is the last opcode a descriptor receives: once the plugin
\* has observed a Shutdown on a descriptor, no step dispatches anything to
\* that descriptor.
C18_NothingAfterShutdown ==
    [][\A e \in Effects :
          Count(seen[e], Shutdown) > 0 => seen'[e] = seen[e]]_vars

\* A released instance that had been initialised, while another instance
\* of the same plugin goes on receiving opcodes.
C18_Witness ==
    /\ inst[2].st = "dropped" /\ inst[2].inits > 0
    /\ seen[2][Len(seen[2])] = Shutdown
    /\ inst[1].st = "live"
    /\ last.inst = 1 /\ last.args.opcode = Initialize /\ last.called # <<>>

\* ---------------------------------------------------------------------
\* C17: the order of one instance() call.  The staging slot is written
\* when the entry point is entered; while the entry point runs and until
\* it has returned the reserved slot is empty and nothing was dispatched;
\* the reserved slot holds the loader's host before the first dispatch; the
\* plugin then observes GetProductName, GetVendorName, GetCategory, in this
\* order and nothing else; a callback that arrives with the descriptor
\* while these opcodes are dispatched is resolved through the reserved
\* slot, to the loader's host.
C17_InstanceOrder ==
    [][/\ \A l \in Loaders :
            /\ (ipc[l] = "idle" /\ ipc'[l] = "main") => load_pointer' = loader[l].host
            /\ ipc'[l] \in {"main", "ret"} =>
                  effect'[cur'[l]].reserved1 = NULL /\ seen'[cur'[l]] = <<>>
            /\ ipc'[l] \in {"new0", "new1", "new2"} =>
                  effect'[cur'[l]].reserved1 = loader[l].host
            /\ ipc'[l] = "new0" => seen'[cur'[l]] = <<>>
            /\ ipc'[l] = "new1" => seen'[cur'[l]] = <<GetProductName>>
            /\ ipc'[l] = "new2" => seen'[cur'[l]] = <<GetProductName, GetVendorName>>
       /\ \A e \in Effects :
            (inst[e].st = "new" /\ inst'[e].st = "live") =>
                seen'[e] = <<GetProductName, GetVendorName, GetCategory>>
       /\ \A c \in Callbacks, l \in Loaders :
            (/\ Arrives(c)
             /\ ipc[l] \in {"new0", "new1", "new2"}
             /\ cb'[c].effect = cur[l]) =>
                cb'[c].via = "reserved" /\ cb'[c].host = loader[l].host]_vars

\* A callback made with the descriptor between GetVendorName and
\* GetCategory runs in the loader's host although the staging slot holds
\* another host.
C17_Witness ==
    /\ ipc["A"] = "new2"
    /\ seen[cur["A"]] = <<GetProductName, GetVendorName>>
    /\ load_pointer # loader["A"].host
    /\ \E c \in Callbacks :
          /\ cb[c].pc = "host" /\ cb[c].effect = cur["A"]
          /\ cb[c].via = "reserved" /\ cb[c].host = loader["A"].host

\* ---------------------------------------------------------------------
\* C12: the snapshot holds the descriptor's numeric fields as they were
\* when new() read them (numPrograms, numParams, numInputs, numOutputs,
\* uniqueId and version before the GetCategory dispatch, initialDelay after
\* it), and once instance() has returned every get_info() returns the same
\* snapshot, whatever the plugin writes to the descriptor and however often
\* init() is called.
C12_SnapshotIsStable ==
    [][\A e \in Effects :
          /\ (inst[e].st = "new" /\ seen[e] = <<GetProductName>>
                                /\ seen'[e] = <<GetProductName, GetVendorName>>) =>
                /\ get_info(e)'.presets = effect[e].fields.numPrograms
                /\ get_info(e)'.parameters = effect[e].fields.numParams
                /\ get_info(e)'.inputs = effect[e].fields.numInputs
                /\ get_info(e)'.outputs = effect[e].fields.numOutputs
                /\ get_info(e)'.unique_id = effect[e].fields.uniqueId
                /\ get_info(e)'.version = effect[e].fields.version
          /\ (inst[e].st = "new" /\ inst'[e].st = "live") =>
                /\ get_info(e)'.initial_delay = effect[e].fields.initialDelay
                /\ get_info(e)' = [get_info(e) EXCEPT
                                      !.initial_delay = effect[e].fields.initialDelay]
          /\ inst[e].st = "live" => get_info(e)' = get_info(e)]_vars

\* An initialised instance whose snapshot was taken across a write of the
\* plugin (counts of the second filling, delay of the first) and whose
\* descriptor was rewritten again after instance() returned.
C12_Witness ==
    /\ inst[1].st = "live" /\ inst[1].inits > 0
    /\ get_info(1).presets = Fields(1).numPrograms
    /\ get_info(1).parameters = Fields(1).numParams
    /\ get_info(1).version = Fields(1).version
    /\ get_info(1).initial_delay = Fields(0).initialDelay
    /\ effect[1].fields = Fields(1)

\* The opcodes init() and Drop have dispatched to descriptor e and that
\* have returned, in the order of the application's calls (new() made the
\* first three dispatches of a descriptor).
Returned(e) == SubSeq(seen[e], 4, Len(seen[e]))

\* s is an initial part of t.
IsPrefix(s, t) == Len(s) <= Len(t) /\ SubSeq(t, 1, Len(s)) = s

\* ---------------------------------------------------------------------
\* C16: dispatch is synchronous and ordered.  On every descriptor the plugin
\* has finished handling every opcode but possibly the last one it was given
\* (it is never handed a second opcode while it handles the first), the
\* opcodes it has finished are the first of those it was given, in the same
\* order, and every dispatch that has returned to the application is one
\* the plugin has finished.
C16_DispatchSynchronous ==
    \A e \in Effects :
        /\ Len(owner.entered[e]) - Len(owner.left[e]) \in {0, 1}
        /\ IsPrefix(owner.left[e], owner.entered[e])
        /\ IsPrefix(Returned(e), owner.left[e])
        /\ Len(owner.left[e]) - Len(Returned(e)) \in {0, 1}

\* Two init() calls and the release of one instance: the plugin saw
\* Initialize, Initialize, Shutdown, each finished before the next began.
C16_Witness ==
    /\ owner.entered[1] = <<Initialize, Initialize, Shutdown>>
    /\ owner.left[1] = <<Initialize, Initialize, Shutdown>>
    /\ Returned(1) = <<Initialize, Initialize, Shutdown>>
    /\ inst[1].st = "dropped"

\* Callback slot c runs on the application thread and waits for the lock.
WaitsNested(c) == owner.nested = c /\ cb[c].pc = "lock"

\* ---------------------------------------------------------------------
\* C19: the host-to-plugin side never takes the host lock: no step of
\* instance(), init() or a release changes a mutex or the guards the
\* application holds.  So a callback made on the calling thread from inside
\* the entry point or a dispatch gets the lock and returns when the
\* application does not hold the lock of the callback's host; when it does,
\* the callback waits for ever, and the call that the application is inside
\* never returns.
C19_HostSideTakesNoLock ==
    /\ [][/\ (ipc' # ipc \/ inst' # inst \/ seen' # seen \/ owner'.call # owner.call) =>
                (mutex' = mutex /\ owner'.guards = owner.guards)
          /\ \A c \in Callbacks :
                (WaitsNested(c) /\ cb[c].host \in owner.guards) =>
                    /\ WaitsNested(c)' /\ cb'[c] = cb[c]
                    /\ owner'.guards = owner.guards
                    /\ owner'.call = owner.call /\ ipc' = ipc]_vars
    /\ \A c \in Callbacks :
          (WaitsNested(c) /\ cb[c].host \notin owner.guards) ~> (cb[c].pc = "idle")

\* The plugin calls back while it handles the Shutdown of a release and the
\* callback runs in the host, on the thread that released the instance.
C19_Witness ==
    /\ owner.call.op = Shutdown /\ owner.call.st = "in"
    /\ owner.nested # 0
    /\ cb[owner.nested].pc = "host"
    /\ cb[owner.nested].effect = owner.call.e
    /\ mutex[cb[owner.nested].host].holder = owner.nested

====
